---- MODULE Spec2Model ----
(***************************************************************************)
(* Model of the two command-line programs of the repository:               *)
(*   program A (Get_Address.go): fetch the wallets of each channel ID and  *)
(*     write <channelID>.json;                                             *)
(*   program B (execute_Address.go): scrape every address of the files of  *)
(*     ad_json, keep the qualifying ones, rewrite or delete each file,     *)
(*     accumulate, deduplicate and write ad.json and ad_txt/addresses.txt. *)
(*                                                                         *)
(* Numbers.  total_profit and sol_balance are modelled as integers; a      *)
(* win-rate is an integer count of ten-thousandths (0.1 is 1000, 0.755 is  *)
(* 7550), so that the three-decimal formatting of the label (thousandths)  *)
(* loses a digit as fmt's %.3f does.  The value sets hold no win-rate that *)
(* lies exactly half-way between two thousandths.                          *)
(*                                                                         *)
(* Strings.  Where only their identity matters (the qualification rule,    *)
(* the deduplication, program A) addresses, labels and names are atomic    *)
(* strings.  Where text is written and read back (the JSON address list,   *)
(* the .txt lists, program B) a string is the sequence of its characters.  *)
(***************************************************************************)
EXTENDS Integers, Sequences, FiniteSets, TLC

VARIABLES
    pc,               \* position of the running program
    scrape,           \* FetchAndAnalyzeData: what the browser session yields
    result,           \* FetchAndAnalyzeData: the returned (*Result, error)
    allResults,       \* processAddressFiles: the result accumulator
    filteredResults,  \* deduplicateAndFilter's return value
    validAddresses,   \* processAddressFiles: the entries kept of the current file
    updatedContent,   \* the JSON text json.MarshalIndent made of validAddresses
    addresses,        \* readAddressesFromFile's return value
    channelIDs,       \* program A: os.Args[1:]
    idx,              \* program A: the position of the loop over channelIDs
    outFiles,         \* program A: the <channelID>.json files written so far
    runLog,           \* program A: what happened to each channel ID (history)
    dir,              \* program B: the files of ad_json, by name
    adjson,           \* program B: ad.json (whether it exists, its records)
    adtxt,            \* program B: ad_txt/addresses.txt (whether it exists, its lines)
    files,            \* program B: the listing ioutil.ReadDir returned
    fileIdx,          \* program B: the position of the loop over files
    addrIdx,          \* program B: the position of the loop over addresses
    fileResults,      \* program B: the results of the current file
    input,            \* program B: ad_json and ad.json as the run found them (history)
    scrapeLog,        \* program B: the outcome of every scrape (history)
    ioLog             \* program B: the outcome of every file update (history)

qVars == <<scrape, result>>
dVars == <<allResults, filteredResults>>
jsonVars == <<validAddresses, updatedContent, addresses>>
aVars == <<channelIDs, idx, outFiles, runLog>>
bVars == <<dir, adjson, adtxt, files, fileIdx, addrIdx, fileResults, input,
           scrapeLog, ioLog>>

vars == <<pc, qVars, dVars, jsonVars, aVars, bVars>>

None == [none |-> TRUE]

\* The values the variables of a part hold while another part runs.
IdleQ == scrape = None /\ result = None
IdleD == allResults = << >> /\ filteredResults = << >>
IdleJson == validAddresses = << >> /\ updatedContent = None /\ addresses = << >>
IdleA == channelIDs = << >> /\ idx = 0 /\ outFiles = << >> /\ runLog = << >>
IdleB ==
    /\ dir = << >> /\ adjson = None /\ adtxt = None /\ files = << >>
    /\ fileIdx = 0 /\ addrIdx = 0 /\ fileResults = << >>
    /\ input = None /\ scrapeLog = << >> /\ ioLog = << >>

RECURSIVE SeqsUpTo(_, _)
\* All sequences over S of length at most n.
SeqsUpTo(S, n) ==
    IF n = 0 THEN {<< >>}
    ELSE LET shorter == SeqsUpTo(S, n - 1)
         IN  shorter \cup {Append(s, x) : s \in shorter, x \in S}

(***************************************************************************)
(* FetchAndAnalyzeData (execute_Address.go 43-117)                         *)
(***************************************************************************)

\* Thresholds of the qualification rule; win-rates in ten-thousandths.
ProfitHigh == 1000000
BalanceMin == 20
WinRateLow == 1000
ProfitLow == 10000
WinRateHigh == 7550

\* A field of addressInfo as json.Unmarshal leaves it in an interface{}:
\* a JSON number, a string holding a numeral, a string holding no numeral,
\* or anything else (null, absent, an object).
RawField(Values) ==
    [k : {"float64", "string"}, v : Values]
        \cup {[k |-> "junk", v |-> 0], [k |-> "other", v |-> 0]}

\* The type switch of lines 81-100: a float64 is taken as is, a string goes
\* through Sscanf("%f") (which leaves the zero value when it scans nothing),
\* any other type leaves the zero value.
ToFloat(raw) ==
    CASE raw.k = "float64" -> raw.v
      [] raw.k = "string"  -> raw.v
      [] OTHER             -> 0

\* Qualifies were the first win-rate comparison strict.
QualifiesStrict(totalProfit, solBalance, winRate) ==
    \/ (totalProfit >= ProfitHigh /\ solBalance >= BalanceMin /\ winRate > WinRateLow)
    \/ (totalProfit >= ProfitLow /\ winRate >= WinRateHigh)

\* The condition of lines 102-103.
Qualifies(totalProfit, solBalance, winRate) ==
    \/ (totalProfit >= ProfitHigh /\ solBalance >= BalanceMin /\ winRate >= WinRateLow)
    \/ (totalProfit >= ProfitLow /\ winRate >= WinRateHigh)

\* %.3f of a win-rate: the nearest count of thousandths.
Format3(winRate) == (winRate + 5) \div 10

\* The label of line 108, "profit:%.2f,balance:%.2f,winrate:%.3f,name:%s",
\* kept as its four fields; winrate is the printed count of thousandths.
FormatLabel(totalProfit, solBalance, winRate, name) ==
    [profit |-> totalProfit, balance |-> solBalance,
     winrate |-> Format3(winRate), name |-> name]

\* (*Result, error) for one address.  sc.status is what chromedp.Run and
\* json.Unmarshal made of the page: "navfail" (line 67), "badjson" (line 72)
\* or "ok" with the addressInfo fields.
FetchAndAnalyzeData(address, sc) ==
    IF sc.status # "ok" THEN [res |-> None, err |-> TRUE]
    ELSE LET totalProfit == ToFloat(sc.total_profit)
             solBalance  == ToFloat(sc.sol_balance)
             winRate     == ToFloat(sc.winrate)
         IN  IF Qualifies(totalProfit, solBalance, winRate)
             THEN [res |-> [Address |-> address,
                            Label |-> FormatLabel(totalProfit, solBalance,
                                                  winRate, sc.twitter_name)],
                   err |-> FALSE]
             ELSE [res |-> None, err |-> FALSE]

QProfits == {0, 9999, 10000, 999999, 1000000}
QBalances == {0, 19, 20}
QWinRates == {0, 999, 1000, 1004, 7549, 7550, 9000}
Names == {"", "kol"}
QAddress == "w1"

Page(tp, sb, wr, name) ==
    [status |-> "ok", total_profit |-> tp, sol_balance |-> sb,
     winrate |-> wr, twitter_name |-> name]

ScrapeFail(kind) ==
    [status |-> kind, total_profit |-> [k |-> "other", v |-> 0],
     sol_balance |-> [k |-> "other", v |-> 0],
     winrate |-> [k |-> "other", v |-> 0], twitter_name |-> ""]

QScrapes ==
    {Page(tp, sb, wr, n) : tp \in RawField(QProfits), sb \in RawField(QBalances),
                           wr \in RawField(QWinRates), n \in Names}
        \cup {ScrapeFail("navfail"), ScrapeFail("badjson")}

InitQ ==
    /\ pc = "fetch"
    /\ scrape \in QScrapes
    /\ result = None
    /\ IdleD /\ IdleJson /\ IdleA /\ IdleB

\* One call of FetchAndAnalyzeData on the scraped page.
QFetch ==
    /\ pc = "fetch"
    /\ result' = FetchAndAnalyzeData(QAddress, scrape)
    /\ pc' = "fetched"
    /\ UNCHANGED <<scrape, dVars, jsonVars, aVars, bVars>>

NextQ == QFetch

SpecQ == InitQ /\ [][NextQ]_vars

\* C1: for the three numbers read from a successfully scraped page,
\* FetchAndAnalyzeData returns a record for the address exactly when
\* (total_profit >= 1,000,000 and sol_balance >= 20 and win_rate >= 0.1) or
\* (total_profit >= 10,000 and win_rate >= 0.755), and otherwise returns
\* neither a record nor an error; the display name has no part in it.
C1_QualificationRule ==
    (pc = "fetched" /\ scrape.status = "ok") =>
        LET tp == ToFloat(scrape.total_profit)
            sb == ToFloat(scrape.sol_balance)
            wr == ToFloat(scrape.winrate)
            rule == \/ (tp >= 1000000 /\ sb >= 20 /\ wr >= 1000)
                    \/ (tp >= 10000 /\ wr >= 7550)
        IN  /\ result.err = FALSE
            /\ (result.res # None) <=> rule
            /\ (result.res # None) => result.res.Address = QAddress

\* A page that qualifies by the second branch only (balance below 20) and a
\* record was returned for it.
C1_Witness ==
    /\ pc = "fetched"
    /\ scrape.status = "ok"
    /\ ToFloat(scrape.sol_balance) < 20
    /\ ToFloat(scrape.total_profit) = 10000
    /\ ToFloat(scrape.winrate) = 7550
    /\ result.res # None

(***************************************************************************)
(* deduplicateAndFilter (execute_Address.go 171-213)                       *)
(***************************************************************************)

\* Bound: the length of the result lists deduplicateAndFilter is applied to.
MaxResults == 3

\* Sscanf("%f") on what follows "winrate:" in the label (lines 177, 191):
\* the printed thousandths read back as a win-rate (in ten-thousandths).
\* A label printed by line 108 always holds "winrate:" followed by a
\* numeral, so the error branches of lines 178-180 and 192-194 are not
\* taken on result records.
ParseWinrate(label) == label.winrate * 10

\* m with key a set to r (uniqueAddresses[a] = r).
MapPut(m, a, r) ==
    [x \in (DOMAIN m) \cup {a} |-> IF x = a THEN r ELSE m[x]]

\* DedupStep were the last record of an address always to replace the kept one.
DedupStepKeepLast(m, r) ==
    IF ParseWinrate(r.Label) <= WinRateLow THEN m
    ELSE MapPut(m, r.Address, r)

\* One iteration of the loop of lines 174-204 on the map uniqueAddresses.
DedupStep(m, r) ==
    LET winrate == ParseWinrate(r.Label)
    IN  IF winrate <= WinRateLow THEN m
        ELSE IF r.Address \in DOMAIN m
             THEN IF winrate > ParseWinrate(m[r.Address].Label)
                  THEN MapPut(m, r.Address, r)
                  ELSE m
             ELSE MapPut(m, r.Address, r)

RECURSIVE UniqueAddresses(_, _)
\* The map after the first n records of results.
UniqueAddresses(results, n) ==
    IF n = 0 THEN << >>
    ELSE DedupStep(UniqueAddresses(results, n - 1), results[n])

\* The orders in which ranging over a map of the keys S may visit them.
KeyOrders(S) ==
    {p \in SeqsUpTo(S, Cardinality(S)) :
        /\ Len(p) = Cardinality(S)
        /\ \A i, j \in 1..Len(p) : i # j => p[i] # p[j]}

\* The slices deduplicateAndFilter may return: the values of the map, in the
\* order the range over the map of lines 208-210 happens to take.
deduplicateAndFilter(results) ==
    LET uniqueAddresses == UniqueAddresses(results, Len(results))
    IN  {[i \in 1..Len(p) |-> uniqueAddresses[p[i]]] :
            p \in KeyOrders(DOMAIN uniqueAddresses)}

Addresses == {"w1", "w2"}
DLabels ==
    {FormatLabel(20000, 5, wr, n) : wr \in {500, 1000, 1010, 8000}, n \in Names}
DResults == [Address : Addresses, Label : DLabels]

InitD ==
    /\ pc = "dedup"
    /\ allResults \in SeqsUpTo(DResults, MaxResults)
    /\ filteredResults = << >>
    /\ IdleQ /\ IdleJson /\ IdleA /\ IdleB

\* One call of deduplicateAndFilter on allResults.
DDedup ==
    /\ pc = "dedup"
    /\ filteredResults' \in deduplicateAndFilter(allResults)
    /\ pc' = "deduped"
    /\ UNCHANGED <<allResults, qVars, jsonVars, aVars, bVars>>

NextD == DDedup

SpecD == InitD /\ [][NextD]_vars

\* The positions of the records of rs for address a.
RecordsOf(rs, a) == {i \in 1..Len(rs) : rs[i].Address = a}

\* C2: the output of deduplicateAndFilter holds exactly one record for each
\* address that has an input record with parsed win-rate > 0.1 and none for
\* any other address; that record is one of the address's input records and
\* its parsed win-rate is the maximum over the address's input records; no
\* record with win-rate <= 0.1 is in the output.
C2_DedupKeepsMax ==
    pc = "deduped" =>
        /\ \A a \in Addresses :
              LET ins == RecordsOf(allResults, a)
                  outs == RecordsOf(filteredResults, a)
              IN  /\ Cardinality(outs) =
                        IF \E i \in ins : ParseWinrate(allResults[i].Label) > 1000
                        THEN 1 ELSE 0
                  /\ \A j \in outs :
                        /\ \E i \in ins : allResults[i] = filteredResults[j]
                        /\ \A i \in ins :
                              ParseWinrate(allResults[i].Label)
                                  <= ParseWinrate(filteredResults[j].Label)
        /\ \A j \in 1..Len(filteredResults) :
              /\ filteredResults[j].Address \in Addresses
              /\ ParseWinrate(filteredResults[j].Label) > 1000

\* An address with three input records, of win-rates 0.8, 0.05 and 0.101 in
\* that order, reduced to the one record of win-rate 0.8.
C2_Witness ==
    /\ pc = "deduped"
    /\ Len(allResults) = 3
    /\ \A i \in 1..3 : allResults[i].Address = "w1"
    /\ allResults[1].Label.winrate = 800
    /\ allResults[2].Label.winrate = 50
    /\ allResults[3].Label.winrate = 101
    /\ Len(filteredResults) = 1
    /\ filteredResults[1] = allResults[1]

(***************************************************************************)
(* The JSON address list: json.MarshalIndent of []AddressItem              *)
(* (execute_Address.go 259) and json.Unmarshal in readAddressesFromFile    *)
(* (execute_Address.go 129-133).  A string is a sequence of characters; a  *)
(* JSON text is null or an array of objects whose "address" and "label"    *)
(* members are string literals, each the sequence of characters between    *)
(* its quotes.                                                             *)
(***************************************************************************)

\* Bound: the number of records of a list that is written and read back.
MaxItems == 2

QUOTE == "\""
BACKSLASH == "\\"
LF == "\n"

\* The characters strings are made of: a letter, and the characters the
\* encoder escapes (quote, backslash, newline, and < which is HTML-escaped).
Chars == {"n", QUOTE, BACKSLASH, LF, "<"}

\* EncodeChar were the quote written unescaped.
EncodeCharNoQuoteEscape(c) ==
    CASE c = BACKSLASH -> <<BACKSLASH, BACKSLASH>>
      [] c = LF        -> <<BACKSLASH, "n">>
      [] c = "<"       -> <<BACKSLASH, "u", "0", "0", "3", "c">>
      [] OTHER         -> <<c>>

\* encoding/json's string encoder on one character (with HTML escaping, the
\* default of MarshalIndent).
EncodeChar(c) ==
    CASE c = QUOTE     -> <<BACKSLASH, QUOTE>>
      [] c = BACKSLASH -> <<BACKSLASH, BACKSLASH>>
      [] c = LF        -> <<BACKSLASH, "n">>
      [] c = "<"       -> <<BACKSLASH, "u", "0", "0", "3", "c">>
      [] OTHER         -> <<c>>

RECURSIVE EncodeString(_)
\* The characters between the quotes of the literal written for string s.
EncodeString(s) ==
    IF s = << >> THEN << >>
    ELSE EncodeChar(Head(s)) \o EncodeString(Tail(s))

\* The character a \uXXXX escape stands for; only < is ever written.
HexChar(h) == IF h = <<"0", "0", "3", "c">> THEN "<" ELSE "?"

RECURSIVE Unquote(_, _)
\* encoding/json's unquote on the literal lit from position i on.  ok is
\* FALSE when the literal is no JSON string (a bare quote, a cut escape).
Unquote(lit, i) ==
    IF i > Len(lit) THEN [ok |-> TRUE, s |-> << >>]
    ELSE IF lit[i] = QUOTE \/ lit[i] = LF THEN [ok |-> FALSE, s |-> << >>]
    ELSE IF lit[i] # BACKSLASH
         THEN LET rest == Unquote(lit, i + 1)
              IN  [ok |-> rest.ok, s |-> <<lit[i]>> \o rest.s]
    ELSE IF i + 1 > Len(lit) THEN [ok |-> FALSE, s |-> << >>]
    ELSE IF lit[i + 1] \in {QUOTE, BACKSLASH, "n"}
         THEN LET rest == Unquote(lit, i + 2)
                  c == IF lit[i + 1] = "n" THEN LF ELSE lit[i + 1]
              IN  [ok |-> rest.ok, s |-> <<c>> \o rest.s]
    ELSE IF lit[i + 1] = "u" /\ i + 5 <= Len(lit)
         THEN LET rest == Unquote(lit, i + 6)
              IN  [ok |-> rest.ok,
                   s |-> <<HexChar(SubSeq(lit, i + 2, i + 5))>> \o rest.s]
    ELSE [ok |-> FALSE, s |-> << >>]

\* json.MarshalIndent(validAddresses, "", "  "): a nil slice (no entry was
\* ever appended) is written as null, any other as an array of objects.
MarshalIndent(items) ==
    IF items = << >> THEN [kind |-> "null", objects |-> << >>]
    ELSE [kind |-> "array",
          objects |-> [i \in 1..Len(items) |->
                          [address |-> EncodeString(items[i].Address),
                           label |-> EncodeString(items[i].Label)]]]

\* json.Unmarshal(content, &addresses) of lines 131-133: the list, or an
\* error when a literal is malformed.
Unmarshal(content) ==
    LET dec == [i \in 1..Len(content.objects) |->
                   [a |-> Unquote(content.objects[i].address, 1),
                    l |-> Unquote(content.objects[i].label, 1)]]
    IN  IF \E i \in 1..Len(dec) : ~dec[i].a.ok \/ ~dec[i].l.ok
        THEN [err |-> TRUE, list |-> << >>]
        ELSE [err |-> FALSE,
              list |-> [i \in 1..Len(dec) |->
                           [Address |-> dec[i].a.s, Label |-> dec[i].l.s]]]

RAddresses == {<<"n">>, <<BACKSLASH, "n">>}
RLabels == SeqsUpTo(Chars, 2)
RItems == [Address : RAddresses, Label : RLabels]

InitR ==
    /\ pc = "write"
    /\ validAddresses \in SeqsUpTo(RItems, MaxItems)
    /\ updatedContent = None
    /\ addresses = << >>
    /\ IdleQ /\ IdleD /\ IdleA /\ IdleB

\* Lines 259-264: the list is marshalled and the text written to the file.
RWrite ==
    /\ pc = "write"
    /\ updatedContent' = MarshalIndent(validAddresses)
    /\ pc' = "read"
    /\ UNCHANGED <<validAddresses, addresses, qVars, dVars, aVars, bVars>>

\* Lines 120-133: the file is read back.
RRead ==
    /\ pc = "read"
    /\ addresses' = Unmarshal(updatedContent)
    /\ pc' = "readback"
    /\ UNCHANGED <<validAddresses, updatedContent, qVars, dVars, aVars, bVars>>

NextR == RWrite \/ RRead

SpecR == InitR /\ [][NextR]_vars

\* C6: writing a list of address records as a JSON address list and reading
\* it back with readAddressesFromFile yields the same records in the same
\* order, without an error.
C6_JsonRoundTrip ==
    pc = "readback" =>
        /\ addresses.err = FALSE
        /\ addresses.list = validAddresses

\* A list of two records whose strings need escaping (a quote, a backslash
\* followed by the letter n, a newline, a <) was written and read back.
C6_Witness ==
    /\ pc = "readback"
    /\ Len(validAddresses) = 2
    /\ validAddresses[1].Address = <<BACKSLASH, "n">>
    /\ validAddresses[1].Label = <<QUOTE, LF>>
    /\ validAddresses[2].Label = <<"<", BACKSLASH>>
    /\ updatedContent.kind = "array"
    /\ Len(addresses.list) = 2

(***************************************************************************)
(* Program A (Get_Address.go): fetchWalletData 27-47 and main 49-100       *)
(***************************************************************************)

\* Bounds: the number of command-line arguments, and the number of entries
\* of one element of the API's batch response.
MaxArgs == 2
MaxEntries == 2

ChannelIDs == {"c1", "c2"}

\* The entries of result.data.json: an address and its labels (none, one,
\* several).
AEntries ==
    {[Address |-> "w1", Labels |-> << >>],
     [Address |-> "w2", Labels |-> <<"kol">>],
     [Address |-> "w3", Labels |-> <<"whale", "kol">>]}

\* One element of the batch response ([]WalletItem), by its json list.
WalletItem(json) == [Result |-> [Data |-> [Json |-> json]]]

\* The values json.Unmarshal may leave in data (line 42): an empty batch, a
\* batch of one element, a batch of two.
AResponses ==
    LET lists == SeqsUpTo(AEntries, MaxEntries)
    IN  {<< >>}
            \cup {<<WalletItem(j)>> : j \in lists}
            \cup {<<WalletItem(j), WalletItem(<<[Address |-> "w2",
                                                 Labels |-> <<"kol">>]>>)>> :
                     j \in lists}

\* What fetchWalletData returns: an error of line 32, 38 or 43, or the data.
FetchErrors == {"request", "read", "parse"}

RECURSIVE Outputs(_)
\* The loop of lines 71-82 over data[0].Result.Data.Json.
Outputs(json) ==
    IF json = << >> THEN << >>
    ELSE LET item == Head(json)
         IN  IF Len(item.Labels) = 0 THEN Outputs(Tail(json))
             ELSE <<[Address |-> item.Address, Label |-> item.Labels[1]]>>
                      \o Outputs(Tail(json))

\* The file name of line 92.
FileName(channelID) == <<channelID, ".json">>

InitA ==
    /\ pc = "main"
    /\ channelIDs \in SeqsUpTo(ChannelIDs, MaxArgs)
    /\ idx = 1
    /\ outFiles = << >>
    /\ runLog = << >>
    /\ IdleQ /\ IdleD /\ IdleJson /\ IdleB

\* Lines 51-54: no argument, the usage line is printed and main returns.
AUsage ==
    /\ pc = "main"
    /\ Len(channelIDs) = 0
    /\ pc' = "done"
    /\ UNCHANGED <<qVars, dVars, jsonVars, aVars, bVars>>

\* Line 57-60: the loop over the channel IDs is entered.
AStart ==
    /\ pc = "main"
    /\ Len(channelIDs) > 0
    /\ pc' = "loop"
    /\ UNCHANGED <<qVars, dVars, jsonVars, aVars, bVars>>

\* Lines 64-68: fetchWalletData returns an error; it is printed with the
\* channel ID and the loop continues.
AFetchError ==
    /\ pc = "loop"
    /\ idx <= Len(channelIDs)
    /\ \E e \in FetchErrors :
          runLog' = Append(runLog, [channelID |-> channelIDs[idx],
                                    outcome |-> e, data |-> << >>,
                                    outputs |-> << >>])
    /\ idx' = idx + 1
    /\ UNCHANGED <<pc, channelIDs, outFiles, qVars, dVars, jsonVars, bVars>>

\* Line 72 on an empty batch: data[0] is out of range, the run-time panic
\* ends the program.
APanic ==
    /\ pc = "loop"
    /\ idx <= Len(channelIDs)
    /\ runLog' = Append(runLog, [channelID |-> channelIDs[idx],
                                 outcome |-> "panic", data |-> << >>,
                                 outputs |-> << >>])
    /\ pc' = "panicked"
    /\ UNCHANGED <<channelIDs, idx, outFiles, qVars, dVars, jsonVars, bVars>>

\* Lines 70-98 on a batch that has a first element: the outputs are built
\* and the file is written, or the write fails and the error is printed.
AWrite ==
    /\ pc = "loop"
    /\ idx <= Len(channelIDs)
    /\ \E data \in AResponses \ {<< >>}, writeOk \in BOOLEAN :
          LET outputs == Outputs(data[1].Result.Data.Json)
              filename == FileName(channelIDs[idx])
          IN  /\ outFiles' = IF writeOk THEN MapPut(outFiles, filename, outputs)
                             ELSE outFiles
              /\ runLog' = Append(runLog,
                                  [channelID |-> channelIDs[idx],
                                   outcome |-> IF writeOk THEN "saved"
                                               ELSE "write",
                                   data |-> data, outputs |-> outputs])
    /\ idx' = idx + 1
    /\ UNCHANGED <<pc, channelIDs, qVars, dVars, jsonVars, bVars>>

\* The loop of line 60 ends after the last channel ID.
AExit ==
    /\ pc = "loop"
    /\ idx > Len(channelIDs)
    /\ pc' = "done"
    /\ UNCHANGED <<qVars, dVars, jsonVars, aVars, bVars>>

NextA == AUsage \/ AStart \/ AFetchError \/ APanic \/ AWrite \/ AExit

SpecA == InitA /\ [][NextA]_vars

\* C3: whatever the API call of a channel ID yields (a request, read or
\* parse error, a parsed response of any length, a write error), the
\* program goes on to every later channel ID: once it has stopped, every
\* channel ID of the command line has been processed.
C3_LaterChannelsProcessed ==
    pc \in {"done", "panicked"} =>
        /\ Len(runLog) = Len(channelIDs)
        /\ \A i \in 1..Len(channelIDs) : runLog[i].channelID = channelIDs[i]

\* The entries of a response that have a label, as (address, first label).
LabelledEntries(data) ==
    LET all == IF data = << >> THEN << >> ELSE data[1].Result.Data.Json
        keep == SelectSeq(all, LAMBDA e : Len(e.Labels) > 0)
    IN  [i \in 1..Len(keep) |->
            [Address |-> keep[i].Address, Label |-> keep[i].Labels[1]]]

\* C7: for each channel ID whose API call succeeded, the program writes to
\* <channelID>.json exactly the entries of the response that have a label,
\* in response order, as (address, first label).
C7_FileHoldsLabelledEntries ==
    \A i \in 1..Len(runLog) :
        runLog[i].outcome \notin FetchErrors =>
            /\ runLog[i].outcome \in {"saved", "write"}
            /\ runLog[i].outputs = LabelledEntries(runLog[i].data)
            /\ runLog[i].outcome = "saved" /\ i = Len(runLog) =>
                  /\ FileName(runLog[i].channelID) \in DOMAIN outFiles
                  /\ outFiles[FileName(runLog[i].channelID)] = runLog[i].outputs

\* C7 restricted to the channel IDs whose response has a first element
\* (it holds of them).
C7_NonEmptyBatch ==
    \A i \in 1..Len(runLog) :
        runLog[i].outcome \in {"saved", "write"} =>
            /\ runLog[i].outputs = LabelledEntries(runLog[i].data)
            /\ runLog[i].outcome = "saved" /\ i = Len(runLog) =>
                  /\ FileName(runLog[i].channelID) \in DOMAIN outFiles
                  /\ outFiles[FileName(runLog[i].channelID)] = runLog[i].outputs

(***************************************************************************)
(* Program B (execute_Address.go): readAddressesFromFile 119-168 and       *)
(* processAddressFiles 215-374.  Here a string is a sequence of            *)
(* characters, a .txt file the sequence of its lines, a .json file the     *)
(* JSON text of the part above, and ad.json the list of its records.       *)
(***************************************************************************)

\* Bound: the number of entries of the lists of ad_json taken together.
MaxAddresses == 2

\* The entries of ad_json in the order ioutil.ReadDir lists them (sorted by
\* name): a file of another extension, a .json list and a .txt list.
FileNames == <<"0.dat", "a.json", "b.txt">>

\* filepath.Ext.
Ext(name) ==
    CASE name = "a.json" -> ".json"
      [] name = "b.txt"  -> ".txt"
      [] OTHER           -> ".dat"

SPACE == " "
Header == <<"a", "d", "d", "r", "e", "s", "s", SPACE, SPACE, "l", "a", "b", "e", "l">>

\* strings.Contains(line, "  ").
ContainsTwoSpaces(line) ==
    \E i \in 1..(Len(line) - 1) : line[i] = SPACE /\ line[i + 1] = SPACE

RECURSIVE FieldsFrom(_, _, _)
\* strings.Fields from position i on, cur being the field under way.
FieldsFrom(line, i, cur) ==
    IF i > Len(line) THEN (IF cur = << >> THEN << >> ELSE <<cur>>)
    ELSE IF line[i] = SPACE
         THEN (IF cur = << >> THEN << >> ELSE <<cur>>)
                  \o FieldsFrom(line, i + 1, << >>)
         ELSE FieldsFrom(line, i + 1, Append(cur, line[i]))

Fields(line) == FieldsFrom(line, 1, << >>)

RECURSIVE Join(_)
\* strings.Join(parts, " ").
Join(parts) ==
    IF parts = << >> THEN << >>
    ELSE IF Len(parts) = 1 THEN parts[1]
    ELSE parts[1] \o <<SPACE>> \o Join(Tail(parts))

RECURSIVE ScanLines(_, _)
\* The loop of lines 147-158 from line i on: a line of two fields or more is
\* an entry, any other line is passed over.
ScanLines(lines, i) ==
    IF i > Len(lines) THEN << >>
    ELSE LET parts == Fields(lines[i])
         IN  (IF Len(parts) >= 2
              THEN <<[Address |-> parts[1], Label |-> Join(Tail(parts))]>>
              ELSE << >>) \o ScanLines(lines, i + 1)

\* Lines 136-158: the first line is passed over when it holds two spaces in
\* a row (a title line), then every line is scanned.
ReadTxt(lines) ==
    IF Len(lines) >= 1 /\ ContainsTwoSpaces(lines[1])
    THEN ScanLines(lines, 2)
    ELSE ScanLines(lines, 1)

\* readAddressesFromFile on the file called name.
readAddressesFromFile(name, file) ==
    IF ~file.readable THEN [err |-> TRUE, list |-> << >>]
    ELSE CASE Ext(name) = ".json" -> Unmarshal(file.text)
           [] Ext(name) = ".txt"  -> [err |-> FALSE, list |-> ReadTxt(file.text)]
           [] OTHER               -> [err |-> TRUE, list |-> << >>]

\* Lines 270-274: the text written for a .txt list.
WriteTxt(items) ==
    <<Header>> \o [i \in 1..Len(items) |->
                      items[i].Address \o <<SPACE, SPACE>> \o items[i].Label]

\* A .txt list without a title line, one space between address and label.
PlainTxt(items) ==
    [i \in 1..Len(items) |-> items[i].Address \o <<SPACE>> \o items[i].Label]

File(text) == [readable |-> TRUE, text |-> text]
Unreadable == [readable |-> FALSE, text |-> << >>]
\* A .json file whose text is no JSON (an escape cut short).
Malformed ==
    File([kind |-> "array",
          objects |-> <<[address |-> <<BACKSLASH>>, label |-> << >>]>>])

BAddresses == {<<"p">>, <<"q">>}
Digit == <<"1", "2", "3", "4">>
\* The label of the i-th entry of a list: of the .json list with a quote and
\* two words, of the .txt list with two words.
JsonLabel(i) == <<"k", QUOTE, SPACE, Digit[i]>>
TxtLabel(i) == <<"t", SPACE, Digit[i]>>

JsonList(as) == [i \in 1..Len(as) |-> [Address |-> as[i], Label |-> JsonLabel(i)]]
TxtList(as) == [i \in 1..Len(as) |-> [Address |-> as[i], Label |-> TxtLabel(i)]]

\* What a.json and b.txt may be when the run starts, for the addresses as
\* of their entries (None: no such file).
JsonFiles(as) ==
    IF as = << >>
    THEN {None, Malformed, File([kind |-> "array", objects |-> << >>])}
    ELSE {File(MarshalIndent(JsonList(as)))}
TxtFiles(as) ==
    (IF as = << >> THEN {None, Unreadable} ELSE {})
        \cup {File(WriteTxt(TxtList(as))), File(PlainTxt(TxtList(as)))}

MkDir(a, b) ==
    [n \in {"0.dat"} \cup (IF a = None THEN {} ELSE {"a.json"})
                     \cup (IF b = None THEN {} ELSE {"b.txt"}) |->
        CASE n = "a.json" -> a
          [] n = "b.txt"  -> b
          [] OTHER        -> File(<< >>)]

\* The directories a run may find.
Dirs ==
    LET lists == SeqsUpTo(BAddresses, MaxAddresses)
    IN  UNION {{MkDir(a, b) : a \in JsonFiles(as), b \in TxtFiles(bs)} :
                  <<as, bs>> \in {x \in lists \X lists :
                                     Len(x[1]) + Len(x[2]) <= MaxAddresses}}

\* ioutil.ReadDir: the names present, sorted.
ReadDir(d) == SelectSeq(FileNames, LAMBDA n : n \in DOMAIN d)

\* ad.json as an earlier run may have left it.
Absent == [exists |-> FALSE, content |-> << >>]
Saved(content) == [exists |-> TRUE, content |-> content]
PriorResults ==
    {Absent,
     Saved(<<[Address |-> <<"p">>, Label |-> FormatLabel(50000, 1, 9000, "kol")]>>)}

Num(v) == [k |-> "float64", v |-> v]
\* What a scrape may yield: a failure, a page that does not qualify, a page
\* that qualifies by the win-rate branch, a page that qualifies by the
\* profit branch with a win-rate of exactly 0.1.
BScrapes ==
    {ScrapeFail("navfail"),
     Page(Num(0), Num(0), Num(0), ""),
     Page(Num(20000), Num(0), Num(8000), "kol"),
     Page(Num(1000000), Num(20), Num(1000), "")}

\* d without the file called name (os.Remove).
Remove(d, name) == [n \in (DOMAIN d) \ {name} |-> d[n]]

\* UpdateFile were a file without valid entries left in place.
UpdateFileNeverRemoves(name, d, valid) ==
    IF Len(valid) > 0
    THEN IF Ext(name) = ".json"
         THEN MapPut(d, name, File(MarshalIndent(valid)))
         ELSE MapPut(d, name, File(WriteTxt(valid)))
    ELSE d

\* Lines 256-288 when the write or the removal succeeds: the file holds the
\* valid entries in its own format, or is removed when there is none.
UpdateFile(name, d, valid) ==
    IF Len(valid) > 0
    THEN IF Ext(name) = ".json"
         THEN MapPut(d, name, File(MarshalIndent(valid)))
         ELSE MapPut(d, name, File(WriteTxt(valid)))
    ELSE Remove(d, name)

RECURSIVE LabelsOfList(_, _)
\* Lines 343-345 on one list: originalLabels[addr.Address] = addr.Label.
LabelsOfList(m, list) ==
    IF list = << >> THEN m
    ELSE LabelsOfList(MapPut(m, Head(list).Address, Head(list).Label), Tail(list))

RECURSIVE OriginalLabels(_, _, _)
\* The loop of lines 335-347 over the listing names of d.
OriginalLabels(m, names, d) ==
    IF names = << >> THEN m
    ELSE LET name == Head(names)
             read == readAddressesFromFile(name, d[name])
         IN  IF Ext(name) \in {".json", ".txt"} /\ ~read.err
             THEN OriginalLabels(LabelsOfList(m, read.list), Tail(names), d)
             ELSE OriginalLabels(m, Tail(names), d)

\* The text of a result's label, as words that hold no space.
LabelText(label) ==
    <<"profit:", ToString(label.profit), ",balance:", ToString(label.balance),
      ",winrate:", ToString(label.winrate), ",name:", label.name>>

\* TxtLines were a result without an original label to get no line.
TxtLinesOnlyLabelled(filtered, originalLabels) ==
    LET known == SelectSeq(filtered, LAMBDA r : r.Address \in DOMAIN originalLabels)
    IN  <<Header>> \o
        [i \in 1..Len(known) |->
            known[i].Address \o <<SPACE, SPACE>> \o originalLabels[known[i].Address]]

\* Lines 350-360: the title line, then one line per filtered result, with
\* the original label of the address or else the result's own label.
TxtLines(filtered, originalLabels) ==
    <<Header>> \o
    [i \in 1..Len(filtered) |->
        filtered[i].Address \o <<SPACE, SPACE>> \o
            (IF filtered[i].Address \in DOMAIN originalLabels
             THEN originalLabels[filtered[i].Address]
             ELSE LabelText(filtered[i].Label))]

InitB ==
    /\ pc = "start"
    /\ dir \in Dirs
    /\ adjson \in PriorResults
    /\ adtxt = Absent
    /\ input = [dir |-> dir, adjson |-> adjson]
    /\ files = << >>
    /\ fileIdx = 0
    /\ addrIdx = 0
    /\ fileResults = << >>
    /\ scrapeLog = << >>
    /\ ioLog = << >>
    /\ allResults = << >>
    /\ filteredResults = << >>
    /\ validAddresses = << >>
    /\ updatedContent = None
    /\ addresses = << >>
    /\ IdleQ /\ IdleA

\* Lines 216-225: the directory is listed and the results of ad.json, when
\* the file is there, start the accumulator.
BStart ==
    /\ pc = "start"
    /\ files' = ReadDir(dir)
    /\ allResults' = IF adjson.exists THEN adjson.content ELSE << >>
    /\ fileIdx' = 1
    /\ pc' = "files"
    /\ UNCHANGED <<filteredResults, qVars, jsonVars, aVars, dir, adjson, adtxt,
                   addrIdx, fileResults, input, scrapeLog, ioLog>>

\* Lines 216-219: ioutil.ReadDir("ad_json") fails, the run ends with the error.
BStartFatal ==
    /\ pc = "start"
    /\ pc' = "fatal"
    /\ UNCHANGED <<dVars, qVars, jsonVars, aVars, bVars>>

\* Line 229: an entry that is neither a .json nor a .txt file is passed over.
BSkipFile ==
    /\ pc = "files"
    /\ fileIdx <= Len(files)
    /\ Ext(files[fileIdx]) \notin {".json", ".txt"}
    /\ fileIdx' = fileIdx + 1
    /\ UNCHANGED <<pc, dVars, qVars, jsonVars, aVars, dir, adjson, adtxt, files,
                   addrIdx, fileResults, input, scrapeLog, ioLog>>

\* Lines 232-236: the file cannot be read, the failure is logged and the
\* loop continues with the next file.
BReadFileError ==
    /\ pc = "files"
    /\ fileIdx <= Len(files)
    /\ Ext(files[fileIdx]) \in {".json", ".txt"}
    /\ readAddressesFromFile(files[fileIdx], dir[files[fileIdx]]).err
    /\ fileIdx' = fileIdx + 1
    /\ UNCHANGED <<pc, dVars, qVars, jsonVars, aVars, dir, adjson, adtxt, files,
                   addrIdx, fileResults, input, scrapeLog, ioLog>>

\* Lines 232-240: the file is read, the lists of the file start empty.
BReadFile ==
    /\ pc = "files"
    /\ fileIdx <= Len(files)
    /\ Ext(files[fileIdx]) \in {".json", ".txt"}
    /\ LET read == readAddressesFromFile(files[fileIdx], dir[files[fileIdx]])
       IN  /\ ~read.err
           /\ addresses' = read.list
    /\ validAddresses' = << >>
    /\ fileResults' = << >>
    /\ addrIdx' = 1
    /\ pc' = "addrs"
    /\ UNCHANGED <<dVars, qVars, updatedContent, aVars, dir, adjson, adtxt, files,
                   fileIdx, input, scrapeLog, ioLog>>

\* AfterFailure were a failure to end the loop over the file's addresses.
AfterFailureBreak(i, n) == n + 1

\* Line 243-246: the position of the loop over the n addresses after the
\* scrape of address i failed (the range loop goes on to the next one).
AfterFailure(i, n) == i + 1

\* Lines 243-253: one address of the file is scraped; a failure is logged,
\* a result is appended to fileResults and its entry to validAddresses.
BScrape ==
    /\ pc = "addrs"
    /\ addrIdx <= Len(addresses)
    /\ \E sc \in BScrapes :
          LET item == addresses[addrIdx]
              r == FetchAndAnalyzeData(item.Address, sc)
          IN  /\ scrapeLog' = Append(scrapeLog,
                                     [file |-> files[fileIdx], pos |-> addrIdx,
                                      err |-> r.err, res |-> r.res, sc |-> sc])
              /\ IF r.err
                 THEN /\ UNCHANGED <<fileResults, validAddresses>>
                      /\ addrIdx' = AfterFailure(addrIdx, Len(addresses))
                 ELSE /\ addrIdx' = addrIdx + 1
                      /\ IF r.res # None
                         THEN /\ fileResults' = Append(fileResults, r.res)
                              /\ validAddresses' = Append(validAddresses, item)
                         ELSE UNCHANGED <<fileResults, validAddresses>>
    /\ UNCHANGED <<pc, dVars, qVars, updatedContent, addresses, aVars, dir, adjson,
                   adtxt, files, fileIdx, input, ioLog>>

\* Lines 290-304: the results of the file join the accumulator, which is
\* saved to ad.json at once (saved tells whether that write succeeds).
Accumulate(saved) ==
    IF Len(fileResults) > 0
    THEN /\ allResults' = allResults \o fileResults
         /\ adjson' = IF saved THEN Saved(allResults \o fileResults) ELSE adjson
    ELSE UNCHANGED <<allResults, adjson>>

\* Lines 255-304 when the file is written or removed.
BUpdateFile ==
    /\ pc = "addrs"
    /\ addrIdx > Len(addresses)
    /\ dir' = UpdateFile(files[fileIdx], dir, validAddresses)
    /\ updatedContent' = IF Len(validAddresses) > 0 /\ Ext(files[fileIdx]) = ".json"
                         THEN MarshalIndent(validAddresses) ELSE updatedContent
    /\ \E saved \in BOOLEAN : Accumulate(saved)
    /\ ioLog' = Append(ioLog, [file |-> files[fileIdx], ok |-> TRUE])
    /\ fileIdx' = fileIdx + 1
    /\ pc' = "files"
    /\ UNCHANGED <<filteredResults, qVars, validAddresses, addresses, aVars, adtxt,
                   files, addrIdx, fileResults, input, scrapeLog>>

\* Lines 255-304 when writing the file fails (lines 264-267, 275-278: the
\* loop continues with the next file and the results of this one are left
\* out of the accumulator) or removing it fails (lines 283-284).
BUpdateFileError ==
    /\ pc = "addrs"
    /\ addrIdx > Len(addresses)
    /\ ioLog' = Append(ioLog, [file |-> files[fileIdx], ok |-> FALSE])
    /\ fileIdx' = fileIdx + 1
    /\ pc' = "files"
    /\ UNCHANGED <<dVars, qVars, jsonVars, aVars, dir, adjson, adtxt, files,
                   addrIdx, fileResults, input, scrapeLog>>

\* Lines 308-373: the results are deduplicated and saved to ad.json, the
\* original labels are read again from ad_json, addresses.txt is written.
BFinish ==
    /\ pc = "files"
    /\ fileIdx > Len(files)
    /\ \E filtered \in deduplicateAndFilter(allResults) :
          /\ filteredResults' = filtered
          /\ adjson' = Saved(filtered)
          /\ adtxt' = Saved(TxtLines(filtered,
                                     OriginalLabels(<< >>, ReadDir(dir), dir)))
    /\ pc' = "done"
    /\ UNCHANGED <<allResults, qVars, jsonVars, aVars, dir, files, fileIdx,
                   addrIdx, fileResults, input, scrapeLog, ioLog>>

\* Lines 308-365 when a step fails and processAddressFiles returns the
\* error: writing ad.json (line 317), or, ad.json being written, making
\* ad_txt, listing ad_json or writing addresses.txt (lines 322, 330, 363).
BFinishFatal ==
    /\ pc = "files"
    /\ fileIdx > Len(files)
    /\ \E filtered \in deduplicateAndFilter(allResults), written \in BOOLEAN :
          adjson' = IF written THEN Saved(filtered) ELSE adjson
    /\ pc' = "fatal"
    /\ UNCHANGED <<dVars, qVars, jsonVars, aVars, dir, adtxt, files, fileIdx,
                   addrIdx, fileResults, input, scrapeLog, ioLog>>

NextB ==
    \/ BStart \/ BStartFatal \/ BSkipFile \/ BReadFileError \/ BReadFile
    \/ BScrape \/ BUpdateFile \/ BUpdateFileError \/ BFinish \/ BFinishFatal

SpecB == InitB /\ [][NextB]_vars

\* The list the run read from file f of ad_json as it found it.
Orig(f) == readAddressesFromFile(f, input.dir[f])

\* The update step of file f (lines 255-288) has been done, and succeeded.
Updated(f) == \E k \in 1..Len(ioLog) : ioLog[k].file = f
UpdatedOk(f) == \E k \in 1..Len(ioLog) : ioLog[k].file = f /\ ioLog[k].ok

\* The logged scrapes of entry i of file f.
ScrapesOf(f, i) ==
    {k \in 1..Len(scrapeLog) : scrapeLog[k].file = f /\ scrapeLog[k].pos = i}
ScrapeOf(f, i) == scrapeLog[CHOOSE k \in ScrapesOf(f, i) : TRUE]

RECURSIVE KeptFrom(_, _, _)
\* The entries of list from position i on whose scrape gave a result.
KeptFrom(f, list, i) ==
    IF i > Len(list) THEN << >>
    ELSE (IF ScrapeOf(f, i).res # None THEN <<list[i]>> ELSE << >>)
             \o KeptFrom(f, list, i + 1)

\* The lists of ad_json: the entries with a .json or .txt name.
ListFiles(d) == {f \in DOMAIN d : Ext(f) \in {".json", ".txt"}}

\* The loop over the files (lines 228-306) has ended.
LoopEnded == pc = "done" \/ (pc = "files" /\ fileIdx > Len(files))

RECURSIVE CleanFileResults(_, _, _)
\* The results of file f from entry i on, had the entries whose scrape
\* failed not been in the file: the result of each other entry, in order.
CleanFileResults(f, list, i) ==
    IF i > Len(list) THEN << >>
    ELSE LET e == ScrapeOf(f, i)
             r == FetchAndAnalyzeData(list[i].Address, e.sc)
         IN  (IF e.sc.status = "ok" /\ r.res # None THEN <<r.res>> ELSE << >>)
                 \o CleanFileResults(f, list, i + 1)

RECURSIVE CleanRun(_, _)
\* The accumulator after the files names, had the unreadable files and the
\* entries whose scrape failed not been in the input.
CleanRun(acc, names) ==
    IF names = << >> THEN acc
    ELSE LET f == Head(names)
             rs == IF Ext(f) \in {".json", ".txt"} /\ ~Orig(f).err
                   THEN CleanFileResults(f, Orig(f).list, 1) ELSE << >>
         IN  CleanRun(IF rs # << >> /\ UpdatedOk(f) THEN acc \o rs ELSE acc,
                      Tail(names))

\* C4: when reading a file or scraping an address fails, no result is
\* produced for that item and processing continues: every other entry of
\* the file and every other file is still processed, an unreadable file is
\* left as it was, and the accumulated results are those of a run whose
\* input holds neither the unreadable files nor the entries that failed.
C4_FailuresSkipped ==
    LoopEnded =>
        /\ \A f \in ListFiles(input.dir) :
              IF Orig(f).err
              THEN /\ ~Updated(f)
                   /\ f \in DOMAIN dir /\ dir[f] = input.dir[f]
                   /\ \A k \in 1..Len(scrapeLog) : scrapeLog[k].file # f
              ELSE /\ Updated(f)
                   /\ \A i \in 1..Len(Orig(f).list) :
                         /\ Cardinality(ScrapesOf(f, i)) = 1
                         /\ ScrapeOf(f, i).err => ScrapeOf(f, i).res = None
        /\ allResults =
              CleanRun(IF input.adjson.exists THEN input.adjson.content ELSE << >>,
                       ReadDir(input.dir))

\* a.json cannot be parsed; of the two entries of b.txt the scrape of the
\* first failed and the second qualified, and its result is accumulated.
C4_Witness ==
    /\ LoopEnded
    /\ "a.json" \in DOMAIN input.dir /\ Orig("a.json").err
    /\ "b.txt" \in DOMAIN input.dir /\ Len(Orig("b.txt").list) = 2
    /\ ScrapeOf("b.txt", 1).err
    /\ ScrapeOf("b.txt", 2).res # None
    /\ ~input.adjson.exists
    /\ Len(allResults) = 1

\* C5: once a file of ad_json has been processed (its rewrite or removal
\* done), it holds exactly the entries of its original list that were found
\* to qualify, with their address and label and in their order, when there
\* is at least one; and it is deleted exactly when there is none.  Until
\* then, and when the write or the removal itself fails, the file is as the
\* run found it.
C5_FileRewrittenOrDeleted ==
    \A f \in ListFiles(input.dir) :
        /\ UpdatedOk(f) =>
              LET kept == KeptFrom(f, Orig(f).list, 1)
              IN  IF kept # << >>
                  THEN /\ f \in DOMAIN dir
                       /\ ~readAddressesFromFile(f, dir[f]).err
                       /\ readAddressesFromFile(f, dir[f]).list = kept
                  ELSE f \notin DOMAIN dir
        /\ ~UpdatedOk(f) => f \in DOMAIN dir /\ dir[f] = input.dir[f]

\* b.txt, without a title line, held two entries; the first did not qualify,
\* the second did, and the file now holds the second alone.
C5_Witness ==
    /\ "b.txt" \in DOMAIN input.dir
    /\ input.dir["b.txt"].readable
    /\ input.dir["b.txt"].text = PlainTxt(TxtList(<<<<"p">>, <<"q">>>>))
    /\ UpdatedOk("b.txt")
    /\ ~ScrapeOf("b.txt", 1).err /\ ScrapeOf("b.txt", 1).res = None
    /\ ScrapeOf("b.txt", 2).res # None
    /\ "b.txt" \in DOMAIN dir
    /\ readAddressesFromFile("b.txt", dir["b.txt"]).list =
           <<[Address |-> <<"q">>, Label |-> TxtLabel(2)]>>

C9_FailureNeverDropsEntry ==
    \A f \in ListFiles(input.dir) :
        UpdatedOk(f) =>
            \A i \in 1..Len(Orig(f).list) :
                ScrapeOf(f, i).err =>
                    /\ f \in DOMAIN dir
                    /\ \E j \in 1..Len(readAddressesFromFile(f, dir[f]).list) :
                          readAddressesFromFile(f, dir[f]).list[j] = Orig(f).list[i]

\* C10: every address for which a scrape of the run produced a result
\* record, and which the rewrite of its file therefore kept, is in the
\* final ad.json once the run has completed.
C10_QualifiedInConsolidated ==
    pc = "done" =>
        \A k \in 1..Len(scrapeLog) :
            (scrapeLog[k].res # None /\ UpdatedOk(scrapeLog[k].file)) =>
                \E j \in 1..Len(adjson.content) :
                    adjson.content[j].Address = scrapeLog[k].res.Address

====
